---- MODULE Spec2Model ----
(***************************************************************************)
(* Model of src/shell.c (lsh): the read / tokenize / dispatch loop of the  *)
(* shell, its three builtins, and the fork / execvp / waitpid life cycle   *)
(* of one external command.                                                *)
(*                                                                         *)
(* The parent's position in lsh_loop / lsh_launch is `pc`.  Every child    *)
(* created by fork() is a separate process with its own state; the kernel  *)
(* side of a child (exit, stop, continue, kill) is the environment.        *)
(* Characters are one-element strings; the non-printable ones are named    *)
(* "LF", "TAB", "CR", "BEL" and "NUL".  A C string is a sequence of        *)
(* characters.                                                             *)
(***************************************************************************)
EXTENDS Integers, Sequences, FiniteSets, TLC

\* ---------------------------------------------------------------- bounds
\* number of lines stdin can deliver before it reports end of input
MaxReads == 2
\* saturation point of the per-launch waitpid call counter
MaxWaits == 3
\* the tokenizer is run on every line of at most this many characters
\* before the newline
MaxLineLen == 4
\* and on the lines made of 1 .. MaxTokens one-character tokens
MaxTokens == 130

\* ------------------------------------------------------------- constants
LSH_TOK_BUFSIZE == 64
\* faulty variant: the bell character is not a delimiter
LSH_TOK_DELIM_NoBell == {" ", "TAB", "CR", "LF"}

LSH_TOK_DELIM == {" ", "TAB", "CR", "LF", "BEL"}
EXIT_SUCCESS == 0
EXIT_FAILURE == 1
\* the two values of the execution status returned by every dispatch path
CONTINUE == 1
TERMINATE == 0

\* ----------------------------------------------------------------- state
VARIABLES
    pc,             \* parent: position in lsh_loop / lsh_launch
    exitCode,       \* parent: process exit code, -1 while running
    line,           \* lsh_loop: contents of the line buffer
    lineBuf,        \* lsh_loop: heap state of `line`: none / live / freed
    args,           \* lsh_loop: the token sequence (NULL terminator implicit)
    argsBuf,        \* lsh_loop: heap state of `args`: none / live / freed
    status,         \* lsh_loop: value returned by lsh_execute
    wstatus,        \* lsh_launch: the local `status` written by waitpid
    waitCalls,      \* lsh_launch: waitpid calls made by the current launch
    children,       \* pid -> process state of the child forked in iteration pid
    stopst,         \* pid -> job-control stop state: no / new / seen
    cbuf,           \* pid -> the child's copy of the stdout stdio buffer
    cwd,            \* parent: current working directory
    obuf,           \* parent: pending contents of the stdout stdio buffer
    out,            \* everything written to file descriptor 1
    diag,           \* kind -> number of diagnostics written to stderr
    failed,         \* kind -> number of failed OS operations
    nprompts,       \* number of printf("> ") calls
    nreads,         \* number of getline calls
    execCalls,      \* number of execvp calls
    called,         \* handler chosen by the last lsh_execute, with its argv
    uaf,            \* a token or line was read after its buffer was freed
    builtin_str,    \* the registry: names
    builtin_func,   \* the registry: handlers
    sigchldIgnored, \* SIGCHLD disposition inherited at startup is SIG_IGN
    bufMode,        \* stdout buffering chosen by stdio: line (tty) / full
    stdinEof,       \* the end-of-file indicator of stdin, feof(stdin)
    chdirCalls,     \* number of chdir calls
    ndispatch,      \* number of lsh_execute calls
    buffsize,       \* lsh_split_line: capacity of the token array
    token,          \* lsh_split_line: the token strtok returned, <<>> is NULL
    tokRest,        \* strtok: the text left after the last token
    oob             \* a store into the token array was beyond its capacity

vars == <<pc, exitCode, line, lineBuf, args, argsBuf, status, wstatus,
          waitCalls, children, stopst, cbuf, cwd, obuf, out, diag, failed,
          nprompts, nreads, execCalls, called, uaf, builtin_str,
          builtin_func, sigchldIgnored, bufMode, stdinEof,
          chdirCalls, ndispatch,
          buffsize, token, tokRest, oob>>

\* ------------------------------------------------------------ input lines
\* a line of n one-character tokens, each followed by a space
TokLine(n) == [i \in 1..(2 * n) |-> IF i % 2 = 1 THEN "a" ELSE " "]

\* lines as getline returns them: the trailing newline is part of the line;
\* the last one has as many tokens as the token array has room for at first
InputLines ==
    { <<"c","d","LF">>,
      <<"c","d"," ","a","LF">>,
      <<"c","d"," ","a"," ","b","LF">>,
      <<"h","e","l","p","LF">>,
      <<"h","e","l","p"," ","a","LF">>,
      <<"e","x","i","t","LF">>,
      <<"e","x","i","t"," ","a","LF">>,
      <<"LF">>,
      <<" ","TAB","LF">>,
      <<"l","s","LF">>,
      <<"c","d","x"," ","a","LF">>,
      <<"e","x","i","t"," ">> \o TokLine(LSH_TOK_BUFSIZE - 1) \o <<"LF">> }

Pids == 1..MaxReads
DiagKinds == {"read", "alloc", "cd_arg", "chdir", "fork", "exec", "wait"}
OpKinds == {"read", "alloc", "chdir", "fork", "exec", "wait"}
WaitStatuses == {"exit0", "exit1", "killed", "stopped"}

\* ------------------------------------------------------------- tokenizer
\* strlen(s): the number of characters before the first NUL
strlen(s) ==
    CHOOSE n \in 0..Len(s) :
        /\ n = Len(s) \/ s[n + 1] = "NUL"
        /\ \A i \in 1..n : s[i] # "NUL"

\* the C string held in a buffer ends at the first NUL
CStr(s) == SubSeq(s, 1, strlen(s))

\* faulty variant: only one leading delimiter is skipped
SkipDelims_One(s) ==
    IF s # <<>> /\ Head(s) \in LSH_TOK_DELIM THEN Tail(s) ELSE s

\* strspn(s, LSH_TOK_DELIM) applied: s without its leading delimiters
RECURSIVE SkipDelims(_)
SkipDelims(s) ==
    IF s # <<>> /\ Head(s) \in LSH_TOK_DELIM THEN SkipDelims(Tail(s)) ELSE s

\* strcspn(s, LSH_TOK_DELIM): length of the leading run of non-delimiters
RECURSIVE TokLen(_)
TokLen(s) ==
    IF s = <<>> \/ Head(s) \in LSH_TOK_DELIM THEN 0 ELSE 1 + TokLen(Tail(s))

\* one strtok call on the remaining text: the token (<<>> stands for NULL)
\* and the text left for the next call
strtok(s) ==
    LET t == SkipDelims(s)
        n == TokLen(t)
    IN  IF t = <<>> THEN [token |-> <<>>, rest |-> <<>>]
        ELSE [token |-> SubSeq(t, 1, n),
              rest  |-> IF n < Len(t) THEN SubSeq(t, n + 2, Len(t)) ELSE <<>>]

\* faulty variant: the array grows one token too late, if (pos > buffsize)
Grow_Late(pos, size) == pos > size

\* if (pos >= buffsize), tested after pos++
Grow(pos, size) == pos >= size

\* -------------------------------------------------------------- registry
Registry_str == << <<"c","d">>, <<"h","e","l","p">>, <<"e","x","i","t">> >>
Registry_func == <<"lsh_cd", "lsh_help", "lsh_exit">>
lsh_num_builtins == Len(builtin_str)

\* faulty variant: strncmp(a, b, strlen(b)) == 0, a prefix match
StrEq_Prefix(a, b) == Len(a) >= Len(b) /\ SubSeq(a, 1, Len(b)) = b

\* strcmp(a, b) == 0
StrEq(a, b) == a = b

\* the for loop of lsh_execute: index of the first registry entry whose
\* name equals args[0], 0 when there is none
RECURSIVE Lookup(_, _)
Lookup(name, i) ==
    IF i > lsh_num_builtins THEN 0
    ELSE IF StrEq(name, builtin_str[i]) THEN i
    ELSE Lookup(name, i + 1)

\* ---------------------------------------------------------------- stdout
Prompt == <<">", " ">>
\* faulty variant: the names are listed from the last one to the first
HelpText_Reversed ==
    << <<"banner", "LF">>, <<"usage", "LF">>, <<"builtins:", "LF">> >>
    \o [i \in 1..lsh_num_builtins |->
            <<" ">> \o builtin_str[lsh_num_builtins + 1 - i] \o <<"LF">>]
    \o << <<"man", "LF">> >>

\* the lines lsh_help prints, each ending in a newline
HelpText ==
    << <<"banner", "LF">>, <<"usage", "LF">>, <<"builtins:", "LF">> >>
    \o [i \in 1..lsh_num_builtins |-> <<" ">> \o builtin_str[i] \o <<"LF">>]
    \o << <<"man", "LF">> >>

Bump(f, k) == [f EXCEPT ![k] = @ + 1]
Min(a, b) == IF a < b THEN a ELSE b

\* ------------------------------------------------------------------ Init
Init ==
    /\ pc = "prompt"
    /\ exitCode = -1
    /\ line = <<>>
    /\ lineBuf = "none"
    /\ args = <<>>
    /\ argsBuf = "none"
    /\ status = CONTINUE
    /\ wstatus = "stopped"
    /\ waitCalls = 0
    /\ children = [p \in Pids |-> "unborn"]
    /\ stopst = [p \in Pids |-> "no"]
    /\ cbuf = [p \in Pids |-> <<>>]
    /\ cwd = <<"/">>
    /\ obuf = <<>>
    /\ out = <<>>
    /\ diag = [k \in DiagKinds |-> 0]
    /\ failed = [k \in OpKinds |-> 0]
    /\ nprompts = 0
    /\ nreads = 0
    /\ execCalls = 0
    /\ called = [handler |-> "none", argv |-> <<>>]
    /\ uaf = FALSE
    /\ builtin_str = Registry_str
    /\ builtin_func = Registry_func
    /\ sigchldIgnored \in BOOLEAN
    /\ bufMode \in {"line", "full"}
    /\ stdinEof = FALSE
    /\ chdirCalls = 0
    /\ ndispatch = 0
    /\ buffsize = 0
    /\ token = <<>>
    /\ tokRest = <<>>
    /\ oob = FALSE


\* ------------------------------------------------------- process helpers
\* exit(code) and the return from main: stdio flushes stdout, the process
\* ends
Exit(code) ==
    /\ pc' = "stopped"
    /\ exitCode' = code
    /\ out' = out \o obuf
    /\ obuf' = <<>>

\* a terminating child becomes a zombie holding its status, unless SIGCHLD
\* is ignored: then the kernel reaps it at once
Terminated(st) == IF sigchldIgnored THEN "gone" ELSE st

Live == {"forked", "running"}
Zombie == {"exit0", "exit1", "killed"}

\* ------------------------------------------------------ lsh_loop, parent
\* printf("> ")
PrintPrompt ==
    /\ pc = "prompt"
    /\ obuf' = Append(obuf, Prompt)
    /\ nprompts' = nprompts + 1
    /\ pc' = "read"
    /\ UNCHANGED <<exitCode, line, lineBuf, args, argsBuf, status, wstatus,
                   waitCalls, children, stopst, cbuf, cwd, out, diag, failed,
                   nreads, execCalls, called, uaf, builtin_str, builtin_func,
                   sigchldIgnored, bufMode, stdinEof,
                   chdirCalls, ndispatch,
                   buffsize, token, tokRest, oob>>

\* lsh_read_line, getline delivers a line.  A line-buffered stdout may be
\* flushed by stdio when input is requested.
ReadLineOk ==
    /\ pc = "read"
    /\ nreads < MaxReads
    /\ nreads' = nreads + 1
    /\ \E l \in InputLines : line' = l
    /\ lineBuf' = "live"
    /\ \E fl \in (IF bufMode = "line" THEN BOOLEAN ELSE {FALSE}) :
          /\ out' = IF fl THEN out \o obuf ELSE out
          /\ obuf' = IF fl THEN <<>> ELSE obuf
    /\ pc' = "split"
    /\ UNCHANGED <<exitCode, args, argsBuf, status, wstatus, waitCalls,
                   children, stopst, cbuf, cwd, diag, failed, nprompts,
                   execCalls, called, uaf, builtin_str, builtin_func,
                   sigchldIgnored, bufMode, stdinEof,
                   chdirCalls, ndispatch,
                   buffsize, token, tokRest, oob>>

\* faulty variant: end of input is treated as a read error
ReadFailCode_NoEof(eof) == EXIT_FAILURE

\* exit code of lsh_read_line when getline fails: feof(stdin) or not
ReadFailCode(eof) == IF eof THEN EXIT_SUCCESS ELSE EXIT_FAILURE

\* lsh_read_line, getline returns -1: end of input or a read error.  getline
\* may or may not have allocated the buffer before it failed.
ReadLineFail ==
    /\ pc = "read"
    /\ nreads' = nreads + 1
    /\ \E eof \in BOOLEAN :
          /\ stdinEof' = eof
          /\ failed' = IF eof THEN failed ELSE Bump(failed, "read")
          /\ diag' = IF eof THEN diag ELSE Bump(diag, "read")
          /\ Exit(ReadFailCode(eof))
    /\ \E alloc \in BOOLEAN :
          lineBuf' = IF alloc THEN "live" ELSE "none"
    /\ line' = <<>>
    /\ UNCHANGED <<args, argsBuf, status, wstatus, waitCalls, children,
                   stopst, cbuf, cwd, nprompts, execCalls, called, uaf,
                   builtin_str, builtin_func, sigchldIgnored, bufMode,
                   chdirCalls, ndispatch,
                   buffsize, token, tokRest, oob>>

\* lsh_split_line up to the loop: malloc of LSH_TOK_BUFSIZE pointers
\* succeeds, strtok(line, LSH_TOK_DELIM) looks for the first token
SplitBegin ==
    /\ pc = "split"
    /\ uaf' = (uaf \/ lineBuf # "live")
    /\ buffsize' = LSH_TOK_BUFSIZE
    /\ args' = <<>>
    /\ argsBuf' = "live"
    /\ token' = strtok(CStr(line)).token
    /\ tokRest' = strtok(CStr(line)).rest
    /\ pc' = "tok_loop"
    /\ UNCHANGED <<exitCode, line, lineBuf, status, wstatus, waitCalls,
                   children, stopst, cbuf, cwd, obuf, out, diag, failed,
                   nprompts, nreads, execCalls, called, builtin_str,
                   builtin_func, sigchldIgnored, bufMode, stdinEof,
                   chdirCalls, ndispatch, oob>>

\* lsh_split_line, malloc fails: diagnostic and exit(EXIT_FAILURE)
SplitLineAllocFail ==
    /\ pc = "split"
    /\ failed' = Bump(failed, "alloc")
    /\ diag' = Bump(diag, "alloc")
    /\ Exit(EXIT_FAILURE)
    /\ UNCHANGED <<line, lineBuf, args, argsBuf, status, wstatus, waitCalls,
                   children, stopst, cbuf, cwd, nprompts, nreads, execCalls,
                   called, uaf, builtin_str, builtin_func, sigchldIgnored,
                   bufMode, stdinEof, chdirCalls, ndispatch,
                   buffsize, token, tokRest, oob>>

\* one turn of the while loop: tokens[pos] = token; pos++; the array grows
\* by LSH_TOK_BUFSIZE when it is full (realloc succeeds); strtok(NULL, ...)
\* looks for the next token.  pos is Len(args).
SplitStore ==
    /\ pc = "tok_loop"
    /\ token # <<>>
    /\ oob' = (oob \/ Len(args) >= buffsize)
    /\ args' = Append(args, token)
    /\ buffsize' = IF Grow(Len(args) + 1, buffsize)
                   THEN buffsize + LSH_TOK_BUFSIZE ELSE buffsize
    /\ token' = strtok(tokRest).token
    /\ tokRest' = strtok(tokRest).rest
    /\ UNCHANGED <<pc, exitCode, line, lineBuf, argsBuf, status, wstatus,
                   waitCalls, children, stopst, cbuf, cwd, obuf, out, diag,
                   failed, nprompts, nreads, execCalls, called, uaf,
                   builtin_str, builtin_func, sigchldIgnored, bufMode,
                   stdinEof, chdirCalls, ndispatch>>

\* one turn of the while loop in which the array is full and realloc
\* fails: diagnostic and exit(EXIT_FAILURE); the old array stays allocated
SplitReallocFail ==
    /\ pc = "tok_loop"
    /\ token # <<>>
    /\ Grow(Len(args) + 1, buffsize)
    /\ oob' = (oob \/ Len(args) >= buffsize)
    /\ args' = Append(args, token)
    /\ buffsize' = buffsize + LSH_TOK_BUFSIZE
    /\ failed' = Bump(failed, "alloc")
    /\ diag' = Bump(diag, "alloc")
    /\ Exit(EXIT_FAILURE)
    /\ UNCHANGED <<line, lineBuf, argsBuf, status, wstatus, waitCalls,
                   children, stopst, cbuf, cwd, nprompts, nreads, execCalls,
                   called, uaf, builtin_str, builtin_func, sigchldIgnored,
                   bufMode, stdinEof, chdirCalls, ndispatch,
                   token, tokRest>>

\* strtok returned NULL: tokens[pos] = NULL; return tokens
SplitEnd ==
    /\ pc = "tok_loop"
    /\ token = <<>>
    /\ oob' = (oob \/ Len(args) >= buffsize)
    /\ pc' = "execute"
    /\ UNCHANGED <<exitCode, line, lineBuf, args, argsBuf, status, wstatus,
                   waitCalls, children, stopst, cbuf, cwd, obuf, out, diag,
                   failed, nprompts, nreads, execCalls, called, uaf,
                   builtin_str, builtin_func, sigchldIgnored, bufMode,
                   stdinEof, chdirCalls, ndispatch,
                   buffsize, token, tokRest>>


\* ----------------------------------------------------------- lsh_execute
\* the function lsh_execute calls for the token sequence a: "none" for an
\* empty command, the registry's handler on a match, else lsh_launch
Handler(a) ==
    IF a = <<>> THEN "none"
    ELSE LET i == Lookup(a[1], 1)
         IN  IF i = 0 THEN "lsh_launch" ELSE builtin_func[i]

\* every dispatch reads the token array, and token[0] out of the line buffer
ReadsTokens == uaf' = (uaf \/ lineBuf # "live" \/ argsBuf # "live")

\* args[0] == NULL: return 1
ExecuteEmpty ==
    /\ pc = "execute"
    /\ Handler(args) = "none"
    /\ ReadsTokens
    /\ ndispatch' = ndispatch + 1
    /\ called' = [handler |-> "none", argv |-> <<>>]
    /\ status' = 1
    /\ pc' = "free_args"
    /\ UNCHANGED <<exitCode, line, lineBuf, args, argsBuf, wstatus, waitCalls,
                   children, stopst, cbuf, cwd, obuf, out, diag, failed,
                   nprompts, nreads, execCalls, builtin_str, builtin_func,
                   sigchldIgnored, bufMode, stdinEof,
                   chdirCalls,
                   buffsize, token, tokRest, oob>>

\* faulty variant: cd without an argument goes to the home directory
CdPath_Home(argv) == IF Len(argv) < 2 THEN <<"~">> ELSE argv[2]

\* lsh_cd: the path handed to chdir, args[1]; <<>> when args[1] == NULL and
\* chdir is not called
CdPath(argv) == IF Len(argv) < 2 THEN <<>> ELSE argv[2]

\* faulty variant: a rejected chdir ends the shell
lsh_cd_return_Fatal(rejected) == IF rejected THEN 0 ELSE 1

\* lsh_cd: return 1, whether or not chdir was rejected
lsh_cd_return(rejected) == 1

\* lsh_cd: no argument, or chdir(args[1]) which the OS accepts or rejects
ExecuteCd ==
    /\ pc = "execute"
    /\ Handler(args) = "lsh_cd"
    /\ ReadsTokens
    /\ ndispatch' = ndispatch + 1
    /\ called' = [handler |-> "lsh_cd", argv |-> args]
    /\ IF CdPath(args) = <<>>
       THEN /\ diag' = Bump(diag, "cd_arg")
            /\ status' = lsh_cd_return(FALSE)
            /\ UNCHANGED <<cwd, failed, chdirCalls>>
       ELSE /\ chdirCalls' = chdirCalls + 1
            /\ \E ok \in BOOLEAN :
                  /\ status' = lsh_cd_return(~ok)
                  /\ IF ok
                     THEN /\ cwd' = CdPath(args)
                          /\ UNCHANGED <<diag, failed>>
                     ELSE /\ failed' = Bump(failed, "chdir")
                          /\ diag' = Bump(diag, "chdir")
                          /\ UNCHANGED cwd
    /\ pc' = "free_args"
    /\ UNCHANGED <<exitCode, line, lineBuf, args, argsBuf, wstatus, waitCalls,
                   children, stopst, cbuf, obuf, out, nprompts, nreads,
                   execCalls, builtin_str, builtin_func, sigchldIgnored,
                   bufMode, stdinEof,
                   buffsize, token, tokRest, oob>>

\* lsh_help: every printf ends in a newline, which flushes a line-buffered
\* stdout
ExecuteHelp ==
    /\ pc = "execute"
    /\ Handler(args) = "lsh_help"
    /\ ReadsTokens
    /\ ndispatch' = ndispatch + 1
    /\ called' = [handler |-> "lsh_help", argv |-> args]
    /\ IF bufMode = "line"
       THEN /\ out' = out \o obuf \o HelpText
            /\ obuf' = <<>>
       ELSE /\ obuf' = obuf \o HelpText
            /\ UNCHANGED out
    /\ status' = 1
    /\ pc' = "free_args"
    /\ UNCHANGED <<exitCode, line, lineBuf, args, argsBuf, wstatus, waitCalls,
                   children, stopst, cbuf, cwd, diag, failed, nprompts,
                   nreads, execCalls, builtin_str, builtin_func,
                   sigchldIgnored, bufMode, stdinEof,
                   chdirCalls,
                   buffsize, token, tokRest, oob>>

\* faulty variant: an argument is taken as a reason not to terminate
lsh_exit_return_Args(argv) == IF Len(argv) > 1 THEN 1 ELSE 0

\* lsh_exit: return 0, args is not looked at
lsh_exit_return(argv) == 0

\* lsh_exit
ExecuteExit ==
    /\ pc = "execute"
    /\ Handler(args) = "lsh_exit"
    /\ ReadsTokens
    /\ ndispatch' = ndispatch + 1
    /\ called' = [handler |-> "lsh_exit", argv |-> args]
    /\ status' = lsh_exit_return(args)
    /\ pc' = "free_args"
    /\ UNCHANGED <<exitCode, line, lineBuf, args, argsBuf, wstatus, waitCalls,
                   children, stopst, cbuf, cwd, obuf, out, diag, failed,
                   nprompts, nreads, execCalls, builtin_str, builtin_func,
                   sigchldIgnored, bufMode, stdinEof,
                   chdirCalls,
                   buffsize, token, tokRest, oob>>

\* no registry entry matches: lsh_launch(args) is entered.  Its local
\* `status` is not initialised: it holds an indeterminate value.
ExecuteLaunch ==
    /\ pc = "execute"
    /\ Handler(args) = "lsh_launch"
    /\ ReadsTokens
    /\ ndispatch' = ndispatch + 1
    /\ called' = [handler |-> "lsh_launch", argv |-> args]
    /\ wstatus' \in WaitStatuses
    /\ waitCalls' = 0
    /\ pc' = "fork"
    /\ UNCHANGED <<exitCode, line, lineBuf, args, argsBuf, status, children,
                   stopst, cbuf, cwd, obuf, out, diag, failed, nprompts,
                   nreads, execCalls, builtin_str, builtin_func,
                   sigchldIgnored, bufMode, stdinEof,
                   chdirCalls,
                   buffsize, token, tokRest, oob>>

\* ------------------------------------------------------ lsh_launch, parent
\* the pid of the child forked in this iteration
CurPid == nreads

\* faulty variant: the failed fork falls into the parent's wait loop
ForkFailPc_Wait == "wait"

\* where the parent goes when fork returned a negative pid: perror, then
\* the return statement
ForkFailPc == "launch_ret"

\* pid = fork() fails: perror("lsh")
ForkFail ==
    /\ pc = "fork"
    /\ failed' = Bump(failed, "fork")
    /\ diag' = Bump(diag, "fork")
    /\ pc' = ForkFailPc
    /\ UNCHANGED <<exitCode, line, lineBuf, args, argsBuf, status, wstatus,
                   waitCalls, children, stopst, cbuf, cwd, obuf, out,
                   nprompts, nreads, execCalls, called, uaf, builtin_str,
                   builtin_func, sigchldIgnored, bufMode, stdinEof,
                   chdirCalls, ndispatch,
                   buffsize, token, tokRest, oob>>

\* pid = fork() succeeds: the child is a duplicate of the parent, its stdio
\* buffer included; the parent enters the wait loop
ForkOk ==
    /\ pc = "fork"
    /\ children' = [children EXCEPT ![CurPid] = "forked"]
    /\ cbuf' = [cbuf EXCEPT ![CurPid] = obuf]
    /\ pc' = "wait"
    /\ UNCHANGED <<exitCode, line, lineBuf, args, argsBuf, status, wstatus,
                   waitCalls, stopst, cwd, obuf, out, diag, failed, nprompts,
                   nreads, execCalls, called, uaf, builtin_str, builtin_func,
                   sigchldIgnored, bufMode, stdinEof,
                   chdirCalls, ndispatch,
                   buffsize, token, tokRest, oob>>

\* faulty variant: a single waitpid call, no loop on a stopped child
WaitAgain_Once(ws) == FALSE

\* the condition of the do-while: !WIFEXITED(status) && !WIFSIGNALED(status)
WaitAgain(ws) == ws \notin {"exit0", "exit1", "killed"}

\* waitpid(pid, &status, WUNTRACED) returns the pid: the child is a zombie
\* (it is reaped) or has stopped and the stop was not yet reported
WaitReport ==
    /\ pc = "wait"
    /\ \/ /\ children[CurPid] \in Zombie
          /\ wstatus' = children[CurPid]
          /\ children' = [children EXCEPT ![CurPid] = "gone"]
          /\ UNCHANGED stopst
       \/ /\ children[CurPid] \in Live
          /\ stopst[CurPid] = "new"
          /\ wstatus' = "stopped"
          /\ stopst' = [stopst EXCEPT ![CurPid] = "seen"]
          /\ UNCHANGED children
    /\ waitCalls' = Min(waitCalls + 1, MaxWaits)
    /\ pc' = IF WaitAgain(wstatus') THEN "wait" ELSE "launch_ret"
    /\ UNCHANGED <<exitCode, line, lineBuf, args, argsBuf, status, cbuf, cwd,
                   obuf, out, diag, failed, nprompts, nreads, execCalls,
                   called, uaf, builtin_str, builtin_func, sigchldIgnored,
                   bufMode, stdinEof,
                   chdirCalls, ndispatch,
                   buffsize, token, tokRest, oob>>

\* waitpid returns -1 (ECHILD): the process no longer exists, which happens
\* when SIGCHLD is ignored and the child has terminated, or when there is
\* no child at all.  The shell installs no signal handler, so EINTR cannot
\* occur.  `status` is not written and wpid is not looked at.
WaitFail ==
    /\ pc = "wait"
    /\ children[CurPid] \in {"gone", "unborn"}
    /\ failed' = [failed EXCEPT !["wait"] = Min(@ + 1, MaxWaits)]
    /\ waitCalls' = Min(waitCalls + 1, MaxWaits)
    /\ pc' = IF WaitAgain(wstatus) THEN "wait" ELSE "launch_ret"
    /\ UNCHANGED <<exitCode, line, lineBuf, args, argsBuf, status, wstatus,
                   children, stopst, cbuf, cwd, obuf, out, diag, nprompts,
                   nreads, execCalls, called, uaf, builtin_str, builtin_func,
                   sigchldIgnored, bufMode, stdinEof,
                   chdirCalls, ndispatch,
                   buffsize, token, tokRest, oob>>

\* faulty variant: the program's exit status decides the returned value
LaunchStatus_Propagate(ws) == IF ws = "exit0" THEN 1 ELSE 0

\* the value lsh_launch returns, given the status the wait loop ended with
LaunchStatus(ws) == 1

\* return 1 from lsh_launch, through lsh_execute, into lsh_loop
LaunchReturn ==
    /\ pc = "launch_ret"
    /\ status' = LaunchStatus(wstatus)
    /\ pc' = "free_args"
    /\ UNCHANGED <<exitCode, line, lineBuf, args, argsBuf, wstatus, waitCalls,
                   children, stopst, cbuf, cwd, obuf, out, diag, failed,
                   nprompts, nreads, execCalls, called, uaf, builtin_str,
                   builtin_func, sigchldIgnored, bufMode, stdinEof,
                   chdirCalls, ndispatch,
                   buffsize, token, tokRest, oob>>


\* ------------------------------------------------- lsh_loop, end of body
\* faulty variant: the block is never released
Free_Leak(b) == b

\* free(p): the block is released
Free(b) == "freed"

\* free(args); the token pointers are gone with the block
FreeArgs ==
    /\ pc = "free_args"
    /\ argsBuf' = Free(argsBuf)
    /\ args' = <<>>
    /\ pc' = "free_line"
    /\ UNCHANGED <<exitCode, line, lineBuf, status, wstatus, waitCalls,
                   children, stopst, cbuf, cwd, obuf, out, diag, failed,
                   nprompts, nreads, execCalls, called, uaf, builtin_str,
                   builtin_func, sigchldIgnored, bufMode, stdinEof,
                   chdirCalls, ndispatch,
                   buffsize, token, tokRest, oob>>

\* free(line); the characters are gone with the block
FreeLine ==
    /\ pc = "free_line"
    /\ lineBuf' = Free(lineBuf)
    /\ line' = <<>>
    /\ pc' = "loop_test"
    /\ UNCHANGED <<exitCode, args, argsBuf, status, wstatus, waitCalls,
                   children, stopst, cbuf, cwd, obuf, out, diag, failed,
                   nprompts, nreads, execCalls, called, uaf, builtin_str,
                   builtin_func, sigchldIgnored, bufMode, stdinEof,
                   chdirCalls, ndispatch,
                   buffsize, token, tokRest, oob>>

\* faulty variant: while (!status)
LoopContinues_Inverted(st) == st = 0

\* while (status)
LoopContinues(st) == st # 0

\* faulty variant: the body starts again at the dispatch, without a new
\* read
LoopTop_Execute == "execute"

\* where the body of the do-while starts: printf("> ")
LoopTop == "prompt"

\* the loop goes round
LoopAgain ==
    /\ pc = "loop_test"
    /\ LoopContinues(status)
    /\ pc' = LoopTop
    /\ UNCHANGED <<exitCode, line, lineBuf, args, argsBuf, status, wstatus,
                   waitCalls, children, stopst, cbuf, cwd, obuf, out, diag,
                   failed, nprompts, nreads, execCalls, called, uaf,
                   builtin_str, builtin_func, sigchldIgnored, bufMode,
                   stdinEof,
                   chdirCalls, ndispatch,
                   buffsize, token, tokRest, oob>>

\* the loop ends: lsh_loop returns and main returns EXIT_SUCCESS
LoopEnd ==
    /\ pc = "loop_test"
    /\ ~LoopContinues(status)
    /\ Exit(EXIT_SUCCESS)
    /\ UNCHANGED <<line, lineBuf, args, argsBuf, status, wstatus, waitCalls,
                   children, stopst, cbuf, cwd, diag, failed, nprompts,
                   nreads, execCalls, called, uaf, builtin_str, builtin_func,
                   sigchldIgnored, bufMode, stdinEof,
                   chdirCalls, ndispatch,
                   buffsize, token, tokRest, oob>>

\* ------------------------------------------------------ lsh_launch, child
\* faulty variant: no exit after perror, the child falls out of the if and
\* returns from lsh_launch into the shell's loop
ExecFailState_FallThrough == "shell"

\* what becomes of the child when execvp returned -1, after perror("lsh"):
\* exit(EXIT_FAILURE)
ExecFailState == "exit1"

\* execvp(args[0], args) succeeds: the program image, stdio buffer included,
\* is replaced
ChildExecOk(p) ==
    /\ children[p] = "forked"
    /\ stopst[p] = "no"
    /\ execCalls' = execCalls + 1
    /\ children' = [children EXCEPT ![p] = "running"]
    /\ cbuf' = [cbuf EXCEPT ![p] = <<>>]
    /\ UNCHANGED <<pc, exitCode, line, lineBuf, args, argsBuf, status,
                   wstatus, waitCalls, stopst, cwd, obuf, out, diag, failed,
                   nprompts, nreads, called, uaf, builtin_str, builtin_func,
                   sigchldIgnored, bufMode, stdinEof,
                   chdirCalls, ndispatch,
                   buffsize, token, tokRest, oob>>

\* execvp fails: perror("lsh"); exit(EXIT_FAILURE), which flushes the
\* child's copy of the stdout buffer
ChildExecFail(p) ==
    /\ children[p] = "forked"
    /\ stopst[p] = "no"
    /\ execCalls' = execCalls + 1
    /\ failed' = Bump(failed, "exec")
    /\ diag' = Bump(diag, "exec")
    /\ IF ExecFailState = "exit1"
       THEN /\ children' = [children EXCEPT ![p] = Terminated("exit1")]
            /\ out' = out \o cbuf[p]
            /\ cbuf' = [cbuf EXCEPT ![p] = <<>>]
       ELSE /\ children' = [children EXCEPT ![p] = ExecFailState]
            /\ UNCHANGED <<out, cbuf>>
    /\ UNCHANGED <<pc, exitCode, line, lineBuf, args, argsBuf, status,
                   wstatus, waitCalls, stopst, cwd, obuf, nprompts, nreads,
                   called, uaf, builtin_str, builtin_func, sigchldIgnored,
                   bufMode, stdinEof,
                   chdirCalls, ndispatch,
                   buffsize, token, tokRest, oob>>

\* ------------------------------------------- the external program, kernel
\* the program ends by itself with exit code 0 or non-zero
ProgExit(p) ==
    /\ children[p] = "running"
    /\ stopst[p] = "no"
    /\ \E st \in {"exit0", "exit1"} :
          children' = [children EXCEPT ![p] = Terminated(st)]
    /\ UNCHANGED <<pc, exitCode, line, lineBuf, args, argsBuf, status,
                   wstatus, waitCalls, stopst, cbuf, cwd, obuf, out, diag,
                   failed, nprompts, nreads, execCalls, called, uaf,
                   builtin_str, builtin_func, sigchldIgnored, bufMode,
                   stdinEof,
                   chdirCalls, ndispatch,
                   buffsize, token, tokRest, oob>>

\* a signal kills the child, stopped or not, before or after the exec
ProgKilled(p) ==
    /\ children[p] \in Live
    /\ children' = [children EXCEPT ![p] = Terminated("killed")]
    /\ stopst' = [stopst EXCEPT ![p] = "no"]
    /\ cbuf' = [cbuf EXCEPT ![p] = <<>>]
    /\ UNCHANGED <<pc, exitCode, line, lineBuf, args, argsBuf, status,
                   wstatus, waitCalls, cwd, obuf, out, diag, failed,
                   nprompts, nreads, execCalls, called, uaf, builtin_str,
                   builtin_func, sigchldIgnored, bufMode, stdinEof,
                   chdirCalls, ndispatch,
                   buffsize, token, tokRest, oob>>

\* a stop signal (SIGSTOP, SIGTSTP) stops the child
ProgStop(p) ==
    /\ children[p] \in Live
    /\ stopst[p] = "no"
    /\ stopst' = [stopst EXCEPT ![p] = "new"]
    /\ UNCHANGED <<pc, exitCode, line, lineBuf, args, argsBuf, status,
                   wstatus, waitCalls, children, cbuf, cwd, obuf, out, diag,
                   failed, nprompts, nreads, execCalls, called, uaf,
                   builtin_str, builtin_func, sigchldIgnored, bufMode,
                   stdinEof,
                   chdirCalls, ndispatch,
                   buffsize, token, tokRest, oob>>

\* SIGCONT resumes the stopped child
ProgCont(p) ==
    /\ children[p] \in Live
    /\ stopst[p] # "no"
    /\ stopst' = [stopst EXCEPT ![p] = "no"]
    /\ UNCHANGED <<pc, exitCode, line, lineBuf, args, argsBuf, status,
                   wstatus, waitCalls, children, cbuf, cwd, obuf, out, diag,
                   failed, nprompts, nreads, execCalls, called, uaf,
                   builtin_str, builtin_func, sigchldIgnored, bufMode,
                   stdinEof,
                   chdirCalls, ndispatch,
                   buffsize, token, tokRest, oob>>

\* ------------------------------------------------------------------ Next
Next ==
    \/ PrintPrompt
    \/ ReadLineOk
    \/ ReadLineFail
    \/ SplitBegin
    \/ SplitLineAllocFail
    \/ SplitStore
    \/ SplitReallocFail
    \/ SplitEnd
    \/ ExecuteEmpty
    \/ ExecuteCd
    \/ ExecuteHelp
    \/ ExecuteExit
    \/ ExecuteLaunch
    \/ ForkFail
    \/ ForkOk
    \/ WaitReport
    \/ WaitFail
    \/ LaunchReturn
    \/ FreeArgs
    \/ FreeLine
    \/ LoopAgain
    \/ LoopEnd
    \/ \E p \in Pids : ChildExecOk(p)
    \/ \E p \in Pids : ChildExecFail(p)
    \/ \E p \in Pids : ProgExit(p)
    \/ \E p \in Pids : ProgKilled(p)
    \/ \E p \in Pids : ProgStop(p)
    \/ \E p \in Pids : ProgCont(p)

Spec == Init /\ [][Next]_vars

\* ---------------------------------------- the tokenizer on its own
\* characters of the tokenizer's test lines: two letters, the delimiters
\* other than the newline, and the NUL byte
Alphabet == {"a", "b", " ", "TAB", "CR", "BEL", "NUL"}

\* with or without the final newline: getline returns at least one
\* character, a newline only at the end, where it is missing when the input
\* ends without one
AsRead(bodies) == {b \o <<"LF">> : b \in bodies} \cup (bodies \ {<<>>})

\* every short line over the alphabet
SplitLines == AsRead(UNION {[1..n -> Alphabet] : n \in 0..MaxLineLen})

\* the lines of 0 .. MaxTokens tokens
CapLines == AsRead({TokLine(n) : n \in 0..MaxTokens})

\* the first iteration of lsh_loop after lsh_read_line has returned the
\* line l
AfterRead(l) ==
    /\ pc = "split"
    /\ exitCode = -1
    /\ line = l
    /\ lineBuf = "live"
    /\ args = <<>>
    /\ argsBuf = "none"
    /\ status = CONTINUE
    /\ wstatus = "stopped"
    /\ waitCalls = 0
    /\ children = [p \in Pids |-> "unborn"]
    /\ stopst = [p \in Pids |-> "no"]
    /\ cbuf = [p \in Pids |-> <<>>]
    /\ cwd = <<"/">>
    /\ obuf = <<Prompt>>
    /\ out = <<>>
    /\ diag = [k \in DiagKinds |-> 0]
    /\ failed = [k \in OpKinds |-> 0]
    /\ nprompts = 1
    /\ nreads = 1
    /\ execCalls = 0
    /\ called = [handler |-> "none", argv |-> <<>>]
    /\ uaf = FALSE
    /\ builtin_str = Registry_str
    /\ builtin_func = Registry_func
    /\ sigchldIgnored = FALSE
    /\ bufMode = "full"
    /\ stdinEof = FALSE
    /\ chdirCalls = 0
    /\ ndispatch = 0
    /\ buffsize = 0
    /\ token = <<>>
    /\ tokRest = <<>>
    /\ oob = FALSE

SplitInit == \E l \in SplitLines : AfterRead(l)

CapInit == \E l \in CapLines : AfterRead(l)

\* lsh_split_line and the dispatch of its result; a short line never
\* fills the array, so no realloc is attempted
SplitNext ==
    \/ SplitBegin
    \/ SplitLineAllocFail
    \/ SplitStore
    \/ SplitEnd
    \/ ExecuteEmpty
    \/ ExecuteLaunch

SplitSpec == SplitInit /\ [][SplitNext]_vars

\* the same with the lines long enough to fill the array
CapNext ==
    \/ SplitNext
    \/ SplitReallocFail

CapSpec == CapInit /\ [][CapNext]_vars

TypeOK ==
    /\ pc \in {"prompt", "read", "split", "tok_loop", "execute", "fork", "wait",
               "launch_ret", "free_args", "free_line", "loop_test", "stopped"}
    /\ exitCode \in {-1, EXIT_SUCCESS, EXIT_FAILURE}
    /\ lineBuf \in {"none", "live", "freed"}
    /\ argsBuf \in {"none", "live", "freed"}
    /\ status \in {0, 1}
    /\ wstatus \in WaitStatuses
    /\ waitCalls \in 0..MaxWaits
    /\ children \in [Pids -> {"unborn", "forked", "running", "exit0", "exit1",
                              "killed", "gone"}]
    /\ stopst \in [Pids -> {"no", "new", "seen"}]
    /\ nprompts \in 0..(MaxReads + 1)
    /\ nreads \in 0..(MaxReads + 1)
    /\ uaf \in BOOLEAN
    /\ stdinEof \in BOOLEAN
    /\ chdirCalls \in 0..MaxReads
    /\ ndispatch \in 0..MaxReads
    /\ buffsize \in Nat
    /\ oob \in BOOLEAN


\* =========================================================== properties
Exists(p) == children[p] \notin {"unborn", "gone"}

\* C1: a child whose fork succeeded keeps the parent inside the wait loop
\* until it has exited or was killed; a stopped child does not release the
\* parent.  So at most one child exists at any time, and outside the wait
\* loop (at the prompt, reading, forking again, stopped) no child exists,
\* not even as an unreaped zombie.
C1_AwaitChild ==
    /\ Cardinality({p \in Pids : Exists(p)}) <= 1
    /\ \A p \in Pids :
          /\ children[p] \in Live => (pc = "wait" /\ p = CurPid)
          /\ Exists(p) => pc = "wait"
    /\ pc \in {"prompt", "read", "fork", "stopped"} =>
          \A p \in Pids : ~Exists(p)

\* the parent is back at the prompt after a child that had stopped, was
\* reported as stopped, and later ended and was reaped
C1_Witness ==
    /\ pc = "prompt"
    /\ children[1] = "gone"
    /\ waitCalls >= 2
    /\ ~sigchldIgnored

\* C2: when execvp fails in the child, the child writes a diagnostic and
\* terminates with a failure status in the same step; no child ever runs
\* the shell's loop, the only process doing so is the parent.
C2_ChildNeverReturns ==
    [][ /\ \A p \in Pids :
             children'[p] \in {"unborn", "forked", "running", "exit0",
                               "exit1", "killed", "gone"}
        /\ \A p \in Pids :
             (children[p] = "forked" /\ failed'["exec"] # failed["exec"]) =>
                 /\ children'[p] = Terminated("exit1")
                 /\ diag'["exec"] = diag["exec"] + 1
                 /\ pc' = pc
      ]_vars

\* a child whose exec failed is a zombie with a failure status while the
\* parent is still in the wait loop
C2_Witness ==
    /\ pc = "wait"
    /\ children[CurPid] = "exit1"
    /\ failed["exec"] = 1
    /\ diag["exec"] = 1


\* C3: the line buffer and the token buffer of an iteration are released on
\* every exit path, early termination included: a stopped shell owns
\* neither.
C3_ReleasedOnEveryExit ==
    pc = "stopped" => (lineBuf # "live" /\ argsBuf # "live")

\* C4: in an iteration that completes, both buffers are live for the whole
\* of lsh_execute, both are freed before the loop test, no token or line is
\* read after its buffer was freed, and nothing is owned when the next
\* prompt is printed.
C4_ScopedBuffers ==
    /\ ~uaf
    /\ pc \in {"tok_loop", "execute", "fork", "wait", "launch_ret",
               "free_args"} =>
          (lineBuf = "live" /\ argsBuf = "live")
    /\ pc = "free_line" => (lineBuf = "live" /\ argsBuf = "freed")
    /\ (pc = "loop_test" \/ (pc \in {"prompt", "read"} /\ nreads > 0)) =>
          (lineBuf = "freed" /\ argsBuf = "freed" /\ line = <<>> /\ args = <<>>)

\* a second iteration begins with both buffers of the first one released
C4_Witness ==
    /\ pc = "prompt"
    /\ nreads = 1
    /\ lineBuf = "freed"
    /\ argsBuf = "freed"
    /\ called.handler = "lsh_launch"

\* C5: the loop stops only from the read (end of input: code 0, read
\* error: code 1), from the tokenizer (allocation failure: code 1) or from
\* the loop test after the exit builtin returned TERMINATE (code 0); the
\* loop test after any other dispatch goes on to the next prompt; a stopped
\* shell takes no step.
C5_StopReason ==
    \/ /\ exitCode = EXIT_SUCCESS
       /\ stdinEof
       /\ failed["read"] + failed["alloc"] = 0
    \/ /\ exitCode = EXIT_SUCCESS
       /\ ~stdinEof
       /\ called.handler = "lsh_exit"
       /\ status = TERMINATE
       /\ failed["read"] + failed["alloc"] = 0
    \/ /\ exitCode = EXIT_FAILURE
       /\ ~stdinEof
       /\ failed["read"] + failed["alloc"] = 1

C5_OnlyWaysToStop ==
    [][ /\ pc # "stopped"
        /\ pc' = "stopped" => pc \in {"read", "split", "tok_loop", "loop_test"}
        /\ pc = "loop_test" =>
              /\ pc' \in {"prompt", "stopped"}
              /\ pc' = "stopped" <=> called.handler = "lsh_exit"
        /\ exitCode' # -1 <=> pc' = "stopped"
        /\ pc' = "stopped" => C5_StopReason'
      ]_vars

\* the shell went on after a failed exec of an external command and
\* stopped only at the exit builtin
C5_Witness ==
    /\ pc = "stopped"
    /\ exitCode = EXIT_SUCCESS
    /\ called.handler = "lsh_exit"
    /\ failed["exec"] = 1
    /\ ~stdinEof

\* C6: the read that detects end of input stops the shell with code 0, no
\* diagnostic, and in that step and ever after no prompt is printed,
\* nothing is tokenized or dispatched and no child is created.
C6_EofStops ==
    [][ /\ ~stdinEof
        /\ stdinEof' =>
              /\ pc = "read"
              /\ pc' = "stopped"
              /\ exitCode' = EXIT_SUCCESS
              /\ UNCHANGED <<nprompts, args, called, children, execCalls,
                             diag, failed, cwd>>
      ]_vars

\* end of input after one dispatched command
C6_Witness ==
    /\ stdinEof
    /\ pc = "stopped"
    /\ exitCode = EXIT_SUCCESS
    /\ nreads = 2
    /\ nprompts = 2


\* the current iteration dispatched to lsh_launch and lsh_launch returned
Launched ==
    called.handler = "lsh_launch"
        /\ pc \in {"free_args", "free_line", "loop_test"}

\* C7: whenever lsh_launch returns, it returns CONTINUE, whatever the wait
\* loop ended with (exit code 0, a non-zero exit code, a signal, a failed
\* exec, a failed fork); every failed exec wrote its diagnostic, and the
\* loop test after a launch goes on to the next prompt.
C7_LaunchContinues ==
    [][ /\ pc = "launch_ret" => (status' = CONTINUE /\ pc' = "free_args")
        /\ Launched' => status' = CONTINUE
        /\ (pc = "loop_test" /\ called.handler = "lsh_launch") =>
              pc' = "prompt"
        /\ diag'["exec"] = failed'["exec"]
      ]_vars

\* the launch of a command that could not be exec'ed has returned CONTINUE
C7_Witness ==
    /\ Launched
    /\ wstatus = "exit1"
    /\ failed["exec"] = 1
    /\ diag["exec"] = 1
    /\ children[CurPid] = "gone"
    /\ status = CONTINUE

\* C8: a failed fork is reported with one diagnostic and goes straight to
\* the return: no child is created, execvp is not called, waitpid is not
\* called, and the launch returns CONTINUE.
C8_ForkFailure ==
    [][ /\ (pc = "fork" /\ failed'["fork"] # failed["fork"]) =>
              /\ diag'["fork"] = diag["fork"] + 1
              /\ pc' = "launch_ret"
              /\ UNCHANGED <<children, execCalls, waitCalls, wstatus>>
        /\ (pc' = "launch_ret" /\ children'[CurPid'] = "unborn") =>
              (waitCalls' = 0 /\ failed'["fork"] > 0)
        /\ (Launched' /\ children'[CurPid'] = "unborn") =>
              (waitCalls' = 0 /\ status' = CONTINUE)
        /\ execCalls' <= Cardinality({p \in Pids : children'[p] # "unborn"})
      ]_vars

\* a launch whose fork failed has returned CONTINUE without any wait
C8_Witness ==
    /\ Launched
    /\ pc = "loop_test"
    /\ children[CurPid] = "unborn"
    /\ failed["fork"] = 1
    /\ diag["fork"] = 1
    /\ waitCalls = 0
    /\ execCalls = 0
    /\ status = CONTINUE

\* C9: every failing OS operation (read, allocation, chdir, fork, exec,
\* wait) has produced a diagnostic, a failed read or allocation has stopped
\* the shell with code 1, and a failed operation is not attempted again
\* without a new input line.
C9_NoErrorSwallowedOrRetried ==
    [][ /\ \A k \in OpKinds : failed'[k] = diag'[k]
        /\ (failed'["read"] + failed'["alloc"] > 0) =>
              (pc' = "stopped" /\ exitCode' = EXIT_FAILURE)
        /\ failed'["wait"] # failed["wait"] => pc' # "wait"
      ]_vars

\* C10: a non-empty command is dispatched on token[0] by exact match
\* against cd, help, exit in that order: on a match exactly that handler is
\* called with the full token sequence, its status is what lsh_execute
\* returns, and no process is created; lsh_launch is entered only when no
\* name matches.  The registry never changes.
C10_Dispatch ==
    /\ builtin_str = << <<"c","d">>, <<"h","e","l","p">>, <<"e","x","i","t">> >>
    /\ builtin_func = <<"lsh_cd", "lsh_help", "lsh_exit">>
    /\ pc \in {"fork", "wait", "launch_ret", "free_args"} =>
          /\ called.handler = "none" <=> args = <<>>
          /\ called.handler # "none" => called.argv = args
          /\ called.handler = "lsh_cd" <=>
                (args # <<>> /\ args[1] = <<"c","d">>)
          /\ called.handler = "lsh_help" <=>
                (args # <<>> /\ args[1] = <<"h","e","l","p">>)
          /\ called.handler = "lsh_exit" <=>
                (args # <<>> /\ args[1] = <<"e","x","i","t">>)
          /\ called.handler \in {"none", "lsh_cd", "lsh_help", "lsh_exit",
                                 "lsh_launch"}
          /\ called.handler \in {"lsh_cd", "lsh_help", "lsh_exit"} =>
                /\ pc = "free_args"
                /\ children[CurPid] = "unborn"
                /\ status = (IF called.handler = "lsh_exit" THEN 0 ELSE 1)
    /\ pc \in {"fork", "wait", "launch_ret"} => called.handler = "lsh_launch"

\* after a successful cd, a command whose name only starts with a builtin's
\* name went to lsh_launch with its full token sequence
C10_Witness ==
    /\ pc = "free_args"
    /\ called.handler = "lsh_launch"
    /\ args = << <<"c","d","x">>, <<"a">> >>
    /\ called.argv = args
    /\ cwd = <<"a">>


\* the step dispatches a command whose first token is exactly `name`
Dispatches(name) == pc = "execute" /\ args # <<>> /\ args[1] = name

\* C11: a command whose first token is exactly `exit` returns TERMINATE
\* whatever tokens follow, and the loop test that comes next stops the
\* shell with exit code 0.
C11_ExitTerminates ==
    [][ /\ Dispatches(<<"e","x","i","t">>) =>
              (status' = TERMINATE /\ pc' = "free_args")
        /\ (called.argv # <<>> /\ called.argv[1] = <<"e","x","i","t">>
              /\ pc \in {"free_args", "free_line"}) =>
              (status' = TERMINATE /\ pc' \in {"free_line", "loop_test"})
        /\ (called.argv # <<>> /\ called.argv[1] = <<"e","x","i","t">>
              /\ pc = "loop_test") =>
              (pc' = "stopped" /\ exitCode' = EXIT_SUCCESS)
      ]_vars

\* `exit a` has stopped the shell with code 0
C11_Witness ==
    /\ pc = "stopped"
    /\ exitCode = EXIT_SUCCESS
    /\ called.argv = << <<"e","x","i","t">>, <<"a">> >>
    /\ status = TERMINATE
    /\ ~stdinEof

\* C12: `cd` with no argument writes the "expected argument" diagnostic,
\* does not call chdir, leaves the working directory as it is and returns
\* CONTINUE.
C12_CdNoArgument ==
    [][ (Dispatches(<<"c","d">>) /\ Len(args) = 1) =>
            /\ diag' = [diag EXCEPT !["cd_arg"] = @ + 1]
            /\ chdirCalls' = chdirCalls
            /\ cwd' = cwd
            /\ failed' = failed
            /\ status' = CONTINUE
            /\ pc' = "free_args"
      ]_vars

\* after a successful `cd a`, a bare `cd` has left the directory at a
C12_Witness ==
    /\ pc = "free_args"
    /\ called.argv = << <<"c","d">> >>
    /\ diag["cd_arg"] = 1
    /\ chdirCalls = 1
    /\ cwd = <<"a">>
    /\ status = CONTINUE

\* C13 as stated: the working directory changes only in the dispatch of a
\* cd command with exactly one argument, and cd returns CONTINUE in every
\* case.
C13_ExactlyOneArgument ==
    [][ /\ cwd' # cwd => (Dispatches(<<"c","d">>) /\ Len(args) = 2)
        /\ Dispatches(<<"c","d">>) => status' = CONTINUE
      ]_vars

\* C13 as amended: the working directory changes only in the dispatch of a
\* cd command with at least one argument, it becomes the directory named by
\* the first argument (further arguments are ignored), and cd returns
\* CONTINUE in every case: no argument, one or more, chdir accepted or
\* rejected.
C13_AtLeastOneArgument ==
    [][ /\ cwd' # cwd =>
              (Dispatches(<<"c","d">>) /\ Len(args) >= 2 /\ cwd' = args[2])
        /\ Dispatches(<<"c","d">>) => (status' = CONTINUE /\ pc' = "free_args")
      ]_vars

\* `cd a b` has changed the directory to a; and a rejected chdir is behind
C13_Witness ==
    /\ pc = "free_args"
    /\ called.argv = << <<"c","d">>, <<"a">>, <<"b">> >>
    /\ cwd = <<"a">>
    /\ failed["chdir"] = 1
    /\ status = CONTINUE


\* ----------------------------------------------- tokenizer properties
IsDelimiter(c) == c \in {" ", "TAB", "CR", "LF", "BEL"}

\* the maximal runs of non-delimiter characters of s, left to right, found
\* by one scan over the characters: cur is the run being read
RECURSIVE RunsFrom(_, _, _, _)
RunsFrom(s, i, cur, acc) ==
    IF i > Len(s) THEN (IF cur = <<>> THEN acc ELSE Append(acc, cur))
    ELSE IF IsDelimiter(s[i])
         THEN RunsFrom(s, i + 1, <<>>,
                       IF cur = <<>> THEN acc ELSE Append(acc, cur))
         ELSE RunsFrom(s, i + 1, Append(cur, s[i]), acc)

Runs(s) == RunsFrom(s, 1, <<>>, <<>>)

\* s up to, not including, its first NUL character
UpToNul(s) ==
    LET nuls == {i \in 1..Len(s) : s[i] = "NUL"}
    IN  IF nuls = {} THEN s
        ELSE SubSeq(s, 1, (CHOOSE i \in nuls : \A j \in nuls : i <= j) - 1)

\* C14 as stated: for any input line the tokens are exactly the maximal
\* runs of non-delimiter characters of the line, in order; none is empty,
\* none contains a delimiter.
C14_TokensAreRuns ==
    pc = "execute" =>
        /\ args = Runs(line)
        /\ \A k \in 1..Len(args) :
              /\ args[k] # <<>>
              /\ \A i \in 1..Len(args[k]) : ~IsDelimiter(args[k][i])

\* C14 as amended: the tokens are exactly the maximal runs of non-delimiter
\* characters of the line up to its first NUL character (the whole line
\* when it has none), in order; none is empty, none contains a delimiter.
C14_TokensAreRunsOfCString ==
    pc = "execute" =>
        /\ args = Runs(UpToNul(line))
        /\ \A k \in 1..Len(args) :
              /\ args[k] # <<>>
              /\ \A i \in 1..Len(args[k]) : ~IsDelimiter(args[k][i])

\* two tokens separated by a run of three different delimiters
C14_Witness ==
    /\ pc = "execute"
    /\ line = <<"b", "BEL", "CR", "a", "LF">>
    /\ args = << <<"b">>, <<"a">> >>

\* C15: a line of delimiters only is split into zero tokens, and the
\* dispatch of zero tokens returns CONTINUE and does nothing else: no
\* handler, no process, no output, no diagnostic, same working directory.
C15_EmptyCommand ==
    [][ /\ (pc' = "execute" /\ \A i \in 1..Len(line') : IsDelimiter(line'[i]))
              => args' = <<>>
        /\ (pc = "execute" /\ args = <<>>) =>
              /\ status' = CONTINUE
              /\ called'.handler = "none"
              /\ pc' = "free_args"
              /\ UNCHANGED <<exitCode, cwd, obuf, out, diag, failed,
                             children, cbuf, execCalls, chdirCalls,
                             builtin_str, builtin_func, nprompts, nreads>>
      ]_vars

\* a line of all five delimiters has been dispatched as the empty command
C15_Witness ==
    /\ pc = "free_args"
    /\ line = <<" ", "TAB", "CR", "BEL", "LF">>
    /\ args = <<>>
    /\ called.handler = "none"
    /\ status = CONTINUE

\* C20: every store of a token is at an index below the capacity the array
\* has at that moment, and so is the store of the final NULL, which is at
\* the index equal to the token count; the capacity is 64 at first, is
\* raised by 64 exactly when the token count reaches it, and never falls.
C20_TokenArrayBounds ==
    [][ /\ ~oob'
        /\ pc' \in {"tok_loop", "execute"} =>
              /\ Len(args') < buffsize'
              /\ buffsize' = 64 * ((Len(args') \div 64) + 1)
        /\ pc = "split" => (pc' = "tok_loop" => buffsize' = 64)
        /\ (pc = "tok_loop" /\ pc' # "stopped") =>
              /\ buffsize' >= buffsize
              /\ buffsize' # buffsize <=> Len(args') = buffsize
              /\ buffsize' # buffsize => buffsize' = buffsize + 64
        /\ (pc = "tok_loop" /\ pc' = "execute") =>
              (args' = args /\ buffsize' = buffsize)
      ]_vars

\* a line of 128 tokens: the array has grown twice
C20_Witness ==
    /\ pc = "execute"
    /\ Len(args) = 128
    /\ buffsize = 192
    /\ ~oob

\* the number of prompts in a sequence of output items
PromptsIn(o) == Cardinality({i \in DOMAIN o : o[i] = Prompt})

\* C16: standard output carries prompts and the lines of help, nothing
\* else; a prompt is printed before each read, and each prompt printed
\* appears on standard output once, so that when the shell has stopped the
\* number of prompts on standard output is the number of reads attempted,
\* also when a child was forked and its exec failed.
C16_PromptPerRead ==
    /\ \A i \in DOMAIN out :
          out[i] = Prompt \/ \E j \in DOMAIN HelpText : out[i] = HelpText[j]
    /\ nprompts = IF pc = "read" THEN nreads + 1 ELSE nreads
    /\ PromptsIn(out) + PromptsIn(obuf) = nprompts
    /\ pc = "stopped" => PromptsIn(out) = nreads

\* an output line that names a builtin: lsh_help prints it as "  %s\n"
IsNameLine(x) == Head(x) = " "

\* what has been printed to stdout so far, flushed or still buffered
Printed == out \o obuf

\* C17: the dispatch of help, with or without arguments, appends to what
\* was printed lines that name cd, help and exit in that order, returns
\* CONTINUE, and leaves the working directory, the registry and the
\* processes as they were: no chdir, no fork, no exec, no diagnostic.
C17_Help ==
    [][ Dispatches(<<"h", "e", "l", "p">>) =>
          /\ status' = CONTINUE
          /\ called'.handler = "lsh_help"
          /\ pc' = "free_args"
          /\ Len(Printed') > Len(Printed)
          /\ SubSeq(Printed', 1, Len(Printed)) = Printed
          /\ SelectSeq(SubSeq(Printed', Len(Printed) + 1, Len(Printed')),
                       IsNameLine)
               = << <<" ", "c", "d", "LF">>,
                    <<" ", "h", "e", "l", "p", "LF">>,
                    <<" ", "e", "x", "i", "t", "LF">> >>
          /\ UNCHANGED <<cwd, builtin_str, builtin_func, children, cbuf,
                         chdirCalls, execCalls, diag, failed, exitCode>>
      ]_vars

\* help was dispatched with an argument and returned CONTINUE
C17_Witness ==
    /\ pc = "free_args"
    /\ called = [handler |-> "lsh_help",
                 argv |-> << <<"h", "e", "l", "p">>, <<"a">> >>]
    /\ status = CONTINUE
    /\ cwd = <<"/">>

\* C18: the wait loop ends exactly when a wait call has reported the child
\* as exited or signalled, whatever the outcome of the call: the step that
\* leaves the loop is the one in which the child's termination status is
\* delivered, a delivered termination always leaves the loop, and the
\* report of a stop stays in the loop.
C18_WaitLoopEndsOnReport ==
    [][ pc = "wait" =>
          /\ pc' = "launch_ret" =>
                /\ children[CurPid] \in Zombie
                /\ wstatus' = children[CurPid]
          /\ (children[CurPid] \in Zombie /\ children'[CurPid] = "gone") =>
                pc' = "launch_ret"
          /\ (stopst[CurPid] = "new" /\ stopst'[CurPid] = "seen") =>
                pc' = "wait"
      ]_vars

\* lsh_exit has been called
ExitDispatched == called.handler = "lsh_exit"

====
